---- MODULE Spec2Model ----
(***************************************************************************)
(* A model of the HD44780 4-bit LCD driver (class Lcd) as a state machine. *)
(*                                                                         *)
(* The repository holds two variants of the driver: src/lcd-ts.ts (an      *)
(* EventEmitter that reports through a callback or an event, and through   *)
(* the returned promise) and src/unnamed/part_000 (promises only).  The    *)
(* variable `variant' selects which of the two a behaviour follows.        *)
(*                                                                         *)
(* One step of the model is one synchronous block of JavaScript: from the  *)
(* resumption of a callback (a timer, an acknowledged pin write, a         *)
(* setImmediate, a process.nextTick) to the next suspension.  The blocks   *)
(* that deliver a callback/event and then release the lock are split in    *)
(* two (Report, Release) so that the state the listener observes exists;   *)
(* no other task takes a step while such a block is open (Quiet).          *)
(***************************************************************************)
EXTENDS Integers, Sequences, FiniteSets, TLC

(***************************************************************************)
(* Bounds of the model.                                                    *)
(***************************************************************************)
MaxCalls == 4      \* operations invoked in one behaviour of Spec
MaxFaults == 1     \* pin writes that fail in one behaviour

(***************************************************************************)
(* Program constants.                                                      *)
(***************************************************************************)
ROW_OFFSETS == <<0, 64, 20, 84>>

BitNot(x) == (0 - x) - 1

COMMANDS ==
  [ CLEAR_DISPLAY  |-> 1,
    HOME           |-> 2,
    SET_CURSOR     |-> 128,
    DISPLAY_ON     |-> 4,
    DISPLAY_OFF    |-> BitNot(4),
    CURSOR_ON      |-> 2,
    CURSOR_OFF     |-> BitNot(2),
    BLINK_ON       |-> 1,
    BLINK_OFF      |-> BitNot(1),
    SCROLL_LEFT    |-> 24,
    SCROLL_RIGHT   |-> 28,
    LEFT_TO_RIGHT  |-> 2,
    RIGHT_TO_LEFT  |-> BitNot(2),
    AUTOSCROLL_ON  |-> 1,
    AUTOSCROLL_OFF |-> BitNot(1) ]

PageSize == 80          \* characters of one display fill
InitialControl == 12    \* 0x0c: display on, cursor off, blink off
InitialMode == 6        \* 0x06: left to right, no shift

NoCall == 0             \* mutexify's used = null

(***************************************************************************)
(* JavaScript's 32-bit integer operators on two's-complement values: a     *)
(* negative x has the bits of the complement of -x-1 (that is, x = ~(-x-1)).*)
(***************************************************************************)
RECURSIVE Pow2(_)
Pow2(n) == IF n = 0 THEN 1 ELSE 2 * Pow2(n - 1)

RECURSIVE AndNat(_, _)
AndNat(a, b) ==
  IF a = 0 \/ b = 0 THEN 0
  ELSE (a % 2) * (b % 2) + 2 * AndNat(a \div 2, b \div 2)

OrNat(a, b) == (a + b) - AndNat(a, b)

\* a & b
BitAnd(a, b) ==
  CASE a >= 0 /\ b >= 0 -> AndNat(a, b)
    [] a >= 0 /\ b < 0  -> a - AndNat(a, BitNot(b))
    [] a < 0 /\ b >= 0  -> b - AndNat(b, BitNot(a))
    [] OTHER            -> BitNot(OrNat(BitNot(a), BitNot(b)))

\* a | b
BitOr(a, b) ==
  CASE a >= 0 /\ b >= 0 -> OrNat(a, b)
    [] a >= 0 /\ b < 0  -> BitNot(BitNot(b) - AndNat(BitNot(b), a))
    [] a < 0 /\ b >= 0  -> BitNot(BitNot(a) - AndNat(BitNot(a), b))
    [] OTHER            -> BitNot(AndNat(BitNot(a), BitNot(b)))

\* x >> n, for x >= 0
ShiftRight(x, n) == x \div Pow2(n)

(***************************************************************************)
(* The state.                                                              *)
(***************************************************************************)
VARIABLES
  variant,         \* "lcd-ts" or "part_000": which source file runs
  rows,            \* this.rows
  largeFont,       \* this.largeFont
  displayControl,  \* this.displayControl
  displayMode,     \* this.displayMode
  used,            \* mutexify: the call the lock is granted to, or NoCall
  queue,           \* mutexify: the calls waiting for the lock, oldest first
  ticks,           \* mutexify: process.nextTick(call) scheduled and not yet run
  crashed,         \* an exception escaped a nextTick callback: the process ended
  calls,           \* the operations invoked so far, in invocation order
  runs,            \* the tasks started so far (one per started operation body)
  pins,            \* the level of each GPIO line
  orphans,         \* data-pin writes still in flight after their Promise.all rejected
  faults,          \* pin writes that have failed so far
  charLog,         \* <<call, index>> of every character handed to write(), in order
  ready            \* 'ready' events emitted so far

vars == <<variant, rows, largeFont, displayControl, displayMode, used, queue, ticks,
          crashed, calls, runs, pins, orphans, faults, charLog, ready>>

Variants == {"lcd-ts", "part_000"}

DataPin == <<"d0", "d1", "d2", "d3">>

PinsLow == [rs |-> 0, e |-> 0, d0 |-> 0, d1 |-> 0, d2 |-> 0, d3 |-> 0]

ControlToggles == {"display", "noDisplay", "cursor", "noCursor", "blink", "noBlink"}
ModeToggles == {"leftToRight", "rightToLeft", "autoscroll", "noAutoscroll"}
Scrolls == {"scrollDisplayLeft", "scrollDisplayRight"}
Unlocked == ControlToggles \cup ModeToggles \cup Scrolls \cup {"setCursor"}
Locked == {"print", "clear", "home"}

(***************************************************************************)
(* An operation as invoked: its name and arguments.  str is the string of  *)
(* a print as its character codes, col/row the arguments of setCursor,     *)
(* val/mode those of a bare send.                                          *)
(***************************************************************************)
Op(kind, str, col, row, val, mode) ==
  [kind |-> kind, str |-> str, col |-> col, row |-> row, val |-> val, mode |-> mode]

SimpleOp(kind) == Op(kind, <<>>, 0, 0, 0, 0)
PrintOp(str) == Op("print", str, 0, 0, 0, 0)
SetCursorOp(col, row) == Op("setCursor", <<>>, col, row, 0, 0)
SendOp(val, mode) == Op("send", <<>>, 0, 0, val, mode)

\* A call: the operation, what its caller has been told, and how often its
\* body has invoked release().
NewCall(op) ==
  [op |-> op, reports |-> <<>>, promise |-> "pending", released |-> 0, started |-> 0]

\* A task: the call it runs, the await it is suspended at (pc), the pin
\* write of write4Bits it is waiting for (io), and its locals.
NewRun(c) ==
  [call |-> c, pc |-> "done", io |-> "idle", half |-> "raw", nib |-> 0, val |-> 0,
   mode |-> 0, pend |-> {}, idx |-> 0, depth |-> 0, step |-> 0, out |-> "ok",
   unwind |-> 0, log |-> <<>>]

KindOf(rn) == calls[rn.call].op.kind

(***************************************************************************)
(* write4Bits and send.                                                    *)
(***************************************************************************)
\* write4Bits(nib) up to its first await: e.write(1) is issued.
StartNibble(rn, nib, half) ==
  [rn EXCEPT !.io = "eHigh", !.nib = nib, !.half = half,
             !.log = Append(@, <<"e", 1>>)]

\* send with the shift of the first nibble left out.
StartSendUnshifted(rn, val, mode) ==
  StartNibble([rn EXCEPT !.val = val, !.mode = mode, !.pc = "io",
                         !.log = Append(@, <<"rs", mode>>)],
              val, "hi")

\* send(val, mode) up to its first await: rs.writeSync(mode), then
\* write4Bits(val >> 4).
StartSend(rn, val, mode) ==
  StartNibble([rn EXCEPT !.val = val, !.mode = mode, !.pc = "io",
                         !.log = Append(@, <<"rs", mode>>)],
              ShiftRight(val, 4), "hi")

\* The four gpio.write(((val >> i) & 1)) of one write4Bits, in issue order.
DataWrites(nib) == [i \in 1..4 |-> <<DataPin[i], BitAnd(ShiftRight(nib, i - 1), 1)>>]

\* The pins after the synchronous writes (rs.writeSync) among the entries a
\* step has added to a task's log.
RECURSIVE SyncWrites(_, _, _)
SyncWrites(p, log, from) ==
  IF from > Len(log) THEN p
  ELSE SyncWrites(IF log[from][1] = "rs" THEN [p EXCEPT !.rs = log[from][2]] ELSE p,
                  log, from + 1)

(***************************************************************************)
(* init(): its awaits in order.  A delay is a timer, a nibble a bare       *)
(* write4Bits, the rest are command() calls.                               *)
(***************************************************************************)
InitProgram ==
  << [t |-> "delay",    v |-> 16],
     [t |-> "nibble",   v |-> 3],
     [t |-> "delay",    v |-> 16],
     [t |-> "nibble",   v |-> 3],
     [t |-> "delay",    v |-> 2],
     [t |-> "nibble",   v |-> 3],
     [t |-> "delay",    v |-> 2],
     [t |-> "nibble",   v |-> 2],
     [t |-> "function", v |-> 32],
     [t |-> "command",  v |-> 16],
     [t |-> "control",  v |-> 0],
     [t |-> "mode",     v |-> 0],
     [t |-> "command",  v |-> 1],
     [t |-> "delay",    v |-> 3],
     [t |-> "ready",    v |-> 0] >>

\* displayFunction with the large-font bit set whatever the row count.
FunctionSetAnyRows(base, rws, lf) ==
  LET twoLine == IF rws > 1 THEN BitOr(base, 8) ELSE base
  IN  IF lf THEN BitOr(twoLine, 4) ELSE twoLine

\* displayFunction as init() computes it from 0x20.
FunctionSet(base, rws, lf) ==
  LET twoLine == IF rws > 1 THEN BitOr(base, 8) ELSE base
  IN  IF rws = 1 /\ lf THEN BitOr(twoLine, 4) ELSE twoLine

\* init() from its await number s on: the task suspended at that await, or
\* finished (with 'ready' emitted by lcd-ts.ts).
InitStep(rn, s) ==
  LET st == InitProgram[s]
      at == [rn EXCEPT !.step = s]
  IN  CASE st.t = "delay"    -> [run |-> [at EXCEPT !.pc = "delay"], ev |-> {}]
        [] st.t = "nibble"   -> [run |-> StartNibble([at EXCEPT !.pc = "io"], st.v, "raw"),
                                 ev |-> {}]
        [] st.t = "function" -> [run |-> StartSend(at, FunctionSet(st.v, rows, largeFont), 0),
                                 ev |-> {}]
        [] st.t = "command"  -> [run |-> StartSend(at, st.v, 0), ev |-> {}]
        [] st.t = "control"  -> [run |-> StartSend(at, displayControl, 0), ev |-> {}]
        [] st.t = "mode"     -> [run |-> StartSend(at, displayMode, 0), ev |-> {}]
        [] OTHER             -> [run |-> [at EXCEPT !.pc = "done"],
                                 ev |-> IF variant = "lcd-ts" THEN {"ready", "resolve"}
                                        ELSE {"resolve"}]

(***************************************************************************)
(* print(): the index of the first character transmitted.                  *)
(***************************************************************************)
\* The start index with the last fill skipped as well.
PrintStartLastFill(str) ==
  LET displayFills == Len(str) \div PageSize
  IN  IF displayFills > 1 THEN displayFills * PageSize ELSE 0

PrintStart(str) ==
  LET displayFills == Len(str) \div PageSize
  IN  IF displayFills > 1 THEN (displayFills - 1) * PageSize ELSE 0

\* The block that ends a print, clear or home: lcd-ts.ts delivers the
\* callback/event first (eventOrCB), then both call release().
Finish(rn, out, levels) ==
  [rn EXCEPT !.pc = IF variant = "lcd-ts" THEN "report" ELSE "release",
             !.out = out, !.unwind = levels]

\* clear() and home() of lcd-ts.ts do not await tryCommand: the command's
\* pin writes run beside the task's own timer.
Detached(rn) == KindOf(rn) \in {"clear", "home"} /\ variant = "lcd-ts"

(***************************************************************************)
(* What a task does when the await it is suspended at completes: after the *)
(* byte of send, the nibble of a bare write4Bits, or a delay.              *)
(***************************************************************************)
AfterAwait(rn) ==
  LET kind == KindOf(rn)
  IN  CASE kind = "send"  -> [run |-> [rn EXCEPT !.pc = "done"], ev |-> {}]
        [] kind \in Unlocked -> [run |-> [rn EXCEPT !.pc = "done"], ev |-> {"resolve"}]
        [] kind = "init"  -> InitStep(rn, rn.step + 1)
        [] kind = "print" ->
             \* write() returned: printChar(str, index + 1) waits for setImmediate
             [run |-> [rn EXCEPT !.pc = "immediate", !.idx = @ + 1, !.depth = @ + 1],
              ev |-> {}]
        [] OTHER ->
             \* clear, home: the command, then delay(3), then the end
             IF rn.pc = "io" THEN [run |-> [rn EXCEPT !.pc = "delay"], ev |-> {}]
             ELSE [run |-> Finish(rn, "ok", 0), ev |-> {}]

\* A failed pin write swallowed: the task goes on as if it had succeeded.
OnFailIgnored(rn) == AfterAwait([rn EXCEPT !.io = "idle", !.pend = {}])

(***************************************************************************)
(* What a task does when the pin write it awaits fails.                    *)
(***************************************************************************)
OnFail(rn) ==
  LET kind == KindOf(rn)
      dead == [rn EXCEPT !.io = "idle", !.pend = {}]
  IN  CASE kind = "send" -> [run |-> [dead EXCEPT !.pc = "done"], ev |-> {}]
        [] kind \in Unlocked \cup {"init"} ->
             [run |-> [dead EXCEPT !.pc = "done"], ev |-> {"reject"}]
        [] kind = "print" ->
             \* every printChar level from the failing one up to the first
             \* catches, reports and releases
             [run |-> Finish(dead, "err", dead.depth), ev |-> {}]
        [] Detached(rn) ->
             \* tryCommand's catch: eventOrCB(e, ..., 'error', cb)
             [run |-> dead, ev |-> {"error"}]
        [] OTHER ->
             \* part_000 commandAndDelay: reject(err); release()
             [run |-> Finish(dead, "err", 0), ev |-> {}]

Settle(cs, c, how) ==
  IF cs[c].promise = "pending" THEN [cs EXCEPT ![c].promise = how] ELSE cs

\* The effect of a step's events on what the callers have been told.
Told(cs, c, ev) ==
  LET a == IF "error" \in ev THEN [cs EXCEPT ![c].reports = Append(@, "err")] ELSE cs
      b == IF "resolve" \in ev THEN Settle(a, c, "resolved") ELSE a
  IN  IF "reject" \in ev THEN Settle(b, c, "rejected") ELSE b

\* No callback-then-release block is open, and the process is alive.
Quiet == ~crashed /\ \A r \in 1..Len(runs) : runs[r].pc \notin {"report", "release"}

\* A macrotask (a timer, an I/O completion, a setImmediate) can run.
Turn == Quiet /\ ticks = 0

\* Task r moves to res.run, emitting res.ev; p is the pins as the step's
\* acknowledged write leaves them.
Continue(r, res, p) ==
  /\ runs' = [runs EXCEPT ![r] = res.run]
  /\ pins' = SyncWrites(p, res.run.log, Len(runs[r].log) + 1)
  /\ calls' = Told(calls, runs[r].call, res.ev)
  /\ ready' = IF "ready" \in res.ev THEN ready + 1 ELSE ready

(***************************************************************************)
(* mutexify (the lock of this.lock = mutexify()): acquire(fn) grants a     *)
(* free lock to fn and schedules call() with process.nextTick, or queues   *)
(* fn; call() invokes whatever `used' is when it runs; release() frees the *)
(* lock whoever calls it and grants it to the oldest waiter.               *)
(* mutexify is the npm package imported by both files; release is one     *)
(* function shared by all bodies, so a second release() by the same body   *)
(* frees the lock of whoever holds it by then.                             *)
(***************************************************************************)
Acquire(c) ==
  IF used = NoCall
  THEN /\ used' = c
       /\ ticks' = ticks + 1
       /\ queue' = queue
  ELSE /\ queue' = Append(queue, c)
       /\ UNCHANGED <<used, ticks>>

ReleaseLock ==
  IF queue = <<>>
  THEN /\ used' = NoCall
       /\ UNCHANGED <<queue, ticks>>
  ELSE /\ used' = Head(queue)
       /\ queue' = Tail(queue)
       /\ ticks' = ticks + 1

\* The body passed to this.lock by print and by commandAndDelay, up to its
\* first suspension, as task rn of call c.
LockBody(rn, op) ==
  IF op.kind = "print"
  THEN \* printChar(str, index, ...): new Promise, setImmediate
       [rn EXCEPT !.pc = "immediate", !.idx = PrintStart(op.str), !.depth = 0]
  ELSE LET cmd  == IF op.kind = "clear" THEN COMMANDS.CLEAR_DISPLAY ELSE COMMANDS.HOME
           sent == StartSend(rn, cmd, 0)
       IN  IF variant = "lcd-ts" THEN [sent EXCEPT !.pc = "delay"] ELSE sent

\* process.nextTick runs call(): used(release).
LockCall ==
  /\ Quiet
  /\ ticks > 0
  /\ ticks' = ticks - 1
  /\ IF used = NoCall
     THEN \* TypeError: used is not a function, thrown from a nextTick callback
          /\ crashed' = TRUE
          /\ UNCHANGED <<calls, runs, pins>>
     ELSE LET rn == LockBody(NewRun(used), calls[used].op)
          IN  /\ runs' = Append(runs, rn)
              /\ pins' = SyncWrites(pins, rn.log, 1)
              /\ calls' = [calls EXCEPT ![used].started = @ + 1]
              /\ UNCHANGED crashed
  /\ UNCHANGED <<variant, rows, largeFont, displayControl, displayMode, used, queue,
                 orphans, faults, charLog, ready>>

(***************************************************************************)
(* The public operations, as invoked.                                      *)
(***************************************************************************)
\* print(val), clear(), home(): this.lock(async (release) => ...).
InvokeLocked(op) ==
  /\ Turn
  /\ calls' = Append(calls, NewCall(op))
  /\ Acquire(Len(calls) + 1)
  /\ UNCHANGED <<variant, rows, largeFont, displayControl, displayMode, crashed, runs,
                 pins, orphans, faults, charLog, ready>>

\* The display-control toggles with noDisplay masking with DISPLAY_ON
\* instead of its complement.
NewControlPlainMask(kind, dc) ==
  CASE kind = "display"   -> BitOr(dc, COMMANDS.DISPLAY_ON)
    [] kind = "noDisplay" -> BitAnd(dc, COMMANDS.DISPLAY_ON)
    [] kind = "cursor"    -> BitOr(dc, COMMANDS.CURSOR_ON)
    [] kind = "noCursor"  -> BitAnd(dc, COMMANDS.CURSOR_OFF)
    [] kind = "blink"     -> BitOr(dc, COMMANDS.BLINK_ON)
    [] kind = "noBlink"   -> BitAnd(dc, COMMANDS.BLINK_OFF)
    [] OTHER              -> dc

\* The display-control toggles with noDisplay clearing the cursor bit.
NewControlWrongMask(kind, dc) ==
  CASE kind = "display"   -> BitOr(dc, COMMANDS.DISPLAY_ON)
    [] kind = "noDisplay" -> BitAnd(dc, COMMANDS.CURSOR_OFF)
    [] kind = "cursor"    -> BitOr(dc, COMMANDS.CURSOR_ON)
    [] kind = "noCursor"  -> BitAnd(dc, COMMANDS.CURSOR_OFF)
    [] kind = "blink"     -> BitOr(dc, COMMANDS.BLINK_ON)
    [] kind = "noBlink"   -> BitAnd(dc, COMMANDS.BLINK_OFF)
    [] OTHER              -> dc

\* The register a toggle leaves in this.displayControl.
NewControl(kind, dc) ==
  CASE kind = "display"   -> BitOr(dc, COMMANDS.DISPLAY_ON)
    [] kind = "noDisplay" -> BitAnd(dc, COMMANDS.DISPLAY_OFF)
    [] kind = "cursor"    -> BitOr(dc, COMMANDS.CURSOR_ON)
    [] kind = "noCursor"  -> BitAnd(dc, COMMANDS.CURSOR_OFF)
    [] kind = "blink"     -> BitOr(dc, COMMANDS.BLINK_ON)
    [] kind = "noBlink"   -> BitAnd(dc, COMMANDS.BLINK_OFF)
    [] OTHER              -> dc

\* The display-mode toggles with autoscroll setting the direction bit.
NewModeWrongBit(kind, dm) ==
  CASE kind = "leftToRight"  -> BitOr(dm, COMMANDS.LEFT_TO_RIGHT)
    [] kind = "rightToLeft"  -> BitAnd(dm, COMMANDS.RIGHT_TO_LEFT)
    [] kind = "autoscroll"   -> BitOr(dm, COMMANDS.LEFT_TO_RIGHT)
    [] kind = "noAutoscroll" -> BitAnd(dm, COMMANDS.AUTOSCROLL_OFF)
    [] OTHER                 -> dm

\* The register a toggle leaves in this.displayMode.
NewMode(kind, dm) ==
  CASE kind = "leftToRight"  -> BitOr(dm, COMMANDS.LEFT_TO_RIGHT)
    [] kind = "rightToLeft"  -> BitAnd(dm, COMMANDS.RIGHT_TO_LEFT)
    [] kind = "autoscroll"   -> BitOr(dm, COMMANDS.AUTOSCROLL_ON)
    [] kind = "noAutoscroll" -> BitAnd(dm, COMMANDS.AUTOSCROLL_OFF)
    [] OTHER                 -> dm

\* ROW_OFFSETS[r]: the entry, or nothing (undefined) outside the table.
RowOffset(r) == IF r \in 0..(Len(ROW_OFFSETS) - 1) THEN <<ROW_OFFSETS[r + 1]>> ELSE <<>>

\* The row index setCursor looks up.
CursorRow(row, rws) == IF row > rws THEN rws - 1 ELSE row

\* COMMANDS.SET_CURSOR | (col + ROW_OFFSETS[r]); col + undefined is NaN, and
\* x | NaN is x.
SetCursorCommand(col, row, rws) ==
  LET off == RowOffset(CursorRow(row, rws))
  IN  IF off = <<>> THEN BitOr(COMMANDS.SET_CURSOR, 0)
      ELSE BitOr(COMMANDS.SET_CURSOR, col + off[1])

\* The command byte an operation that takes no lock passes to command().
CommandOf(op, dc, dm) ==
  CASE op.kind \in ControlToggles        -> dc
    [] op.kind \in ModeToggles           -> dm
    [] op.kind = "scrollDisplayLeft"     -> COMMANDS.SCROLL_LEFT
    [] op.kind = "scrollDisplayRight"    -> COMMANDS.SCROLL_RIGHT
    [] OTHER                             -> SetCursorCommand(op.col, op.row, rows)

\* setCursor, the ten toggles and the two scroll commands: the register
\* update (if any) and command(...) up to its first await.
InvokeUnlocked(op) ==
  /\ Turn
  /\ LET dc == NewControl(op.kind, displayControl)
         dm == NewMode(op.kind, displayMode)
         rn == StartSend(NewRun(Len(calls) + 1), CommandOf(op, dc, dm), 0)
     IN  /\ displayControl' = dc
         /\ displayMode' = dm
         /\ calls' = Append(calls, [NewCall(op) EXCEPT !.started = 1])
         /\ runs' = Append(runs, rn)
         /\ pins' = SyncWrites(pins, rn.log, 1)
  /\ UNCHANGED <<variant, rows, largeFont, used, queue, ticks, crashed, orphans, faults,
                 charLog, ready>>

\* init(): up to await delay(16).
InvokeInit ==
  /\ Turn
  /\ calls' = Append(calls, [NewCall(SimpleOp("init")) EXCEPT !.started = 1])
  /\ runs' = Append(runs, InitStep(NewRun(Len(calls) + 1), 1).run)
  /\ UNCHANGED <<variant, rows, largeFont, displayControl, displayMode, used, queue, ticks,
                 crashed, pins, orphans, faults, charLog, ready>>

\* send(val, mode) called on its own.
InvokeSend(val, mode) ==
  /\ Turn
  /\ LET rn == StartSend(NewRun(Len(calls) + 1), val, mode)
     IN  /\ calls' = Append(calls, [NewCall(SendOp(val, mode)) EXCEPT !.started = 1])
         /\ runs' = Append(runs, rn)
         /\ pins' = SyncWrites(pins, rn.log, 1)
  /\ UNCHANGED <<variant, rows, largeFont, displayControl, displayMode, used, queue, ticks,
                 crashed, orphans, faults, charLog, ready>>

(***************************************************************************)
(* The steps of a task.                                                    *)
(***************************************************************************)
\* await this.e.write(1) returns: the four data writes are issued.
AckEnableHigh(r) ==
  /\ Turn
  /\ runs[r].io = "eHigh"
  /\ runs' = [runs EXCEPT ![r].io = "data", ![r].pend = 1..4,
                          ![r].log = @ \o DataWrites(runs[r].nib)]
  /\ pins' = [pins EXCEPT !.e = 1]
  /\ UNCHANGED <<variant, rows, largeFont, displayControl, displayMode, used, queue, ticks,
                 crashed, calls, orphans, faults, charLog, ready>>

\* One gpio.write of the Promise.all is acknowledged; after the last one
\* e.write(0) is issued.
AckData(r, i) ==
  /\ Turn
  /\ runs[r].io = "data"
  /\ i \in runs[r].pend
  /\ LET w    == DataWrites(runs[r].nib)[i]
         left == runs[r].pend \ {i}
     IN  /\ pins' = [pins EXCEPT ![w[1]] = w[2]]
         /\ runs' = IF left = {}
                    THEN [runs EXCEPT ![r].pend = left, ![r].io = "eLow",
                                      ![r].log = Append(@, <<"e", 0>>)]
                    ELSE [runs EXCEPT ![r].pend = left]
  /\ UNCHANGED <<variant, rows, largeFont, displayControl, displayMode, used, queue, ticks,
                 crashed, calls, orphans, faults, charLog, ready>>

\* await this.e.write(0) returns; sleepus(1); write4Bits returns.  send
\* goes on with write4Bits(val), or the byte (or bare nibble) is done and
\* the caller goes on after sleepus(39) or sleepus(43).
AckEnableLow(r) ==
  /\ Turn
  /\ runs[r].io = "eLow"
  /\ LET rn  == runs[r]
         low == [pins EXCEPT !.e = 0]
     IN  IF rn.half = "hi"
         THEN Continue(r, [run |-> StartNibble(rn, rn.val, "lo"), ev |-> {}], low)
         ELSE IF Detached(rn)
              THEN Continue(r, [run |-> [rn EXCEPT !.io = "idle"], ev |-> {}], low)
              ELSE Continue(r, AfterAwait([rn EXCEPT !.io = "idle"]), low)
  /\ UNCHANGED <<variant, rows, largeFont, displayControl, displayMode, used, queue, ticks,
                 crashed, orphans, faults, charLog>>

\* The timer of an await delay(...) fires.
DelayDone(r) ==
  /\ Turn
  /\ runs[r].pc = "delay"
  /\ Continue(r, AfterAwait(runs[r]), pins)
  /\ UNCHANGED <<variant, rows, largeFont, displayControl, displayMode, used, queue, ticks,
                 crashed, orphans, faults, charLog>>

\* The setImmediate callback of printChar(str, index, ...).
PrintChar(r) ==
  /\ Turn
  /\ runs[r].pc = "immediate"
  /\ LET rn  == runs[r]
         str == calls[rn.call].op.str
     IN  IF rn.idx >= Len(str)
         THEN /\ Continue(r, [run |-> Finish(rn, "ok", 0), ev |-> {}], pins)
              /\ UNCHANGED charLog
         ELSE \* write(str.charCodeAt(index)); index counts from 0
              /\ Continue(r, [run |-> StartSend(rn, str[rn.idx + 1], 1), ev |-> {}], pins)
              /\ charLog' = Append(charLog, <<rn.call, rn.idx>>)
  /\ UNCHANGED <<variant, rows, largeFont, displayControl, displayMode, used, queue, ticks,
                 crashed, orphans, faults>>

\* The pin write task r awaits fails (a rejected gpio.write).  The other
\* data writes of a rejected Promise.all stay in flight.
\* A throwing rs.writeSync is not a separate case: like a rejected first
\* e.write(1) it ends the byte before any data pin is written.
FailWrite(r, i) ==
  /\ Turn
  /\ runs[r].io \in {"eHigh", "data", "eLow"}
  /\ IF runs[r].io = "data" THEN i \in runs[r].pend ELSE i = 1
  /\ faults' = faults + 1
  /\ orphans' = orphans \cup {DataWrites(runs[r].nib)[j] : j \in runs[r].pend \ {i}}
  /\ Continue(r, OnFail(runs[r]), pins)
  /\ UNCHANGED <<variant, rows, largeFont, displayControl, displayMode, used, queue, ticks,
                 crashed, charLog>>

\* A data write left in flight by a rejected Promise.all is acknowledged.
OrphanAck(w) ==
  /\ Turn
  /\ w \in orphans
  /\ orphans' = orphans \ {w}
  /\ pins' = [pins EXCEPT ![w[1]] = w[2]]
  /\ UNCHANGED <<variant, rows, largeFont, displayControl, displayMode, used, queue, ticks,
                 crashed, calls, runs, faults, charLog, ready>>

\* lcd-ts.ts: eventOrCB(err, value, event, cb) at the end of a print, clear
\* or home, or in a catch of printChar; release() is the next statement.
Report(r) ==
  /\ ~crashed
  /\ runs[r].pc = "report"
  /\ calls' = [calls EXCEPT ![runs[r].call].reports = Append(@, runs[r].out)]
  /\ runs' = [runs EXCEPT ![r].pc = "release"]
  /\ UNCHANGED <<variant, rows, largeFont, displayControl, displayMode, used, queue, ticks,
                 crashed, pins, orphans, faults, charLog, ready>>

\* release(), then resolve() or reject(err); a rejected printChar is caught
\* by the printChar level above it, which reports and releases again.
Release(r) ==
  /\ ~crashed
  /\ runs[r].pc = "release"
  /\ ReleaseLock
  /\ LET rn == runs[r]
         c  == rn.call
         cs == [calls EXCEPT ![c].released = @ + 1]
     IN  IF rn.unwind > 0
         THEN /\ runs' = [runs EXCEPT ![r] = Finish(rn, rn.out, rn.unwind - 1)]
              /\ calls' = cs
         ELSE /\ runs' = [runs EXCEPT ![r].pc = "done"]
              /\ calls' = Settle(cs, c, IF rn.out = "ok" THEN "resolved" ELSE "rejected")
  /\ UNCHANGED <<variant, rows, largeFont, displayControl, displayMode, crashed, pins,
                 orphans, faults, charLog, ready>>

(***************************************************************************)
(* Construction.  new Lcd(config): rows = config.rows || 1, largeFont =     *)
(* !!config.largeFont, the six pins exported low, the registers at 0x0c    *)
(* and 0x06, a free lock; init() is called unless config.notAutomaticInit. *)
(***************************************************************************)
Construct(vs, cfgRows, cfgLargeFont, notAutomaticInit) ==
  /\ variant \in vs
  /\ rows \in {IF n = 0 THEN 1 ELSE n : n \in cfgRows}
  /\ largeFont \in cfgLargeFont
  /\ displayControl = InitialControl
  /\ displayMode = InitialMode
  /\ used = NoCall
  /\ queue = <<>>
  /\ ticks = 0
  /\ crashed = FALSE
  /\ calls = IF notAutomaticInit THEN <<>>
             ELSE <<[NewCall(SimpleOp("init")) EXCEPT !.started = 1]>>
  /\ runs = IF notAutomaticInit THEN <<>> ELSE <<InitStep(NewRun(1), 1).run>>
  /\ pins = PinsLow
  /\ orphans = {}
  /\ faults = 0
  /\ charLog = <<>>
  /\ ready = 0

\* Every task has finished and no pin write is in flight.
Idle ==
  /\ ticks = 0
  /\ queue = <<>>
  /\ used = NoCall
  /\ \A r \in 1..Len(runs) : runs[r].pc = "done" /\ runs[r].io = "idle"

Tasks == 1..Len(runs)

(***************************************************************************)
(* SpecSend: one send(val, mode) on a driver constructed with              *)
(* notAutomaticInit, for every byte and both modes, every pin write        *)
(* succeeding.                                                             *)
(***************************************************************************)
InitSend == Construct(Variants, {1}, {FALSE}, TRUE)

NextSend ==
  \/ \E val \in 0..255, mode \in 0..1 : calls = <<>> /\ InvokeSend(val, mode)
  \/ \E r \in Tasks : AckEnableHigh(r)
  \/ \E r \in Tasks, i \in 1..4 : AckData(r, i)
  \/ \E r \in Tasks : AckEnableLow(r)

SpecSend == InitSend /\ [][NextSend]_vars

\* The pin writes of one nibble, by arithmetic on its value.
Frame(nib) ==
  << <<"e", 1>>,
     <<"d0", nib % 2>>,
     <<"d1", (nib \div 2) % 2>>,
     <<"d2", (nib \div 4) % 2>>,
     <<"d3", (nib \div 8) % 2>>,
     <<"e", 0>> >>

\* The pin writes of one byte.
ByteFrame(val, mode) ==
  << <<"rs", mode>> >> \o Frame((val \div 16) % 16) \o Frame(val % 16)

IsPrefix(s, t) == Len(s) <= Len(t) /\ SubSeq(t, 1, Len(s)) = s

\* C7: the pin writes of send(v, mode), in the order issued, are always a
\* prefix of: rs := mode, then the frame of v >> 4 (e high, d0..d3 with the
\* nibble's bits, e low), then the frame of v & 0xF; a finished send has
\* issued exactly all of them.  Enable goes low only once no data write of
\* the nibble is pending, and the second frame starts only after that.
C7_SendFrames ==
  \A r \in Tasks :
    LET rn == runs[r]
        op == calls[rn.call].op
    IN  op.kind = "send" =>
          /\ IsPrefix(rn.log, ByteFrame(op.val, op.mode))
          /\ (rn.pc = "done" => rn.log = ByteFrame(op.val, op.mode))
          /\ (rn.io = "eLow" => rn.pend = {})
          /\ (rn.io = "data" => Len(rn.log) \in {6, 12})

\* C7 witness: send(0xA5, 1) has finished.
C7_Witness ==
  \E r \in Tasks :
    /\ calls[runs[r].call].op = SendOp(165, 1)
    /\ runs[r].pc = "done"
    /\ Len(runs[r].log) = 13

(***************************************************************************)
(* SpecPrints: up to MaxCalls print calls invoked at any time on one       *)
(* driver, at most MaxFaults writes of the enable pin failing; the data    *)
(* pins acknowledge in the order written.                                  *)
(***************************************************************************)
\* Data pin i is the first of task r's pending data writes.
InOrder(r, i) == \A j \in runs[r].pend : i <= j

\* The string of n characters with codes 65, 66, ...
Text(n) == [i \in 1..n |-> 64 + i]

PrintMenu == {PrintOp(Text(1)), PrintOp(Text(2))}

InitPrints == Construct(Variants, {1}, {FALSE}, TRUE)

NextPrints ==
  \/ \E op \in PrintMenu : Len(calls) < MaxCalls /\ InvokeLocked(op)
  \/ LockCall
  \/ \E r \in Tasks : PrintChar(r)
  \/ \E r \in Tasks : AckEnableHigh(r)
  \/ \E r \in Tasks, i \in 1..4 : InOrder(r, i) /\ AckData(r, i)
  \/ \E r \in Tasks : AckEnableLow(r)
  \/ \E r \in Tasks : faults < MaxFaults /\ runs[r].io = "eHigh" /\ FailWrite(r, 1)
  \/ \E r \in Tasks : Report(r)
  \/ \E r \in Tasks : Release(r)

SpecPrints == InitPrints /\ [][NextPrints]_vars

\* C1: the characters of two print calls are never interleaved: in the
\* order in which characters are handed to the pins, no character of
\* another call lies between two characters of one call.
C1_PrintsNeverInterleave ==
  \A i, j, k \in 1..Len(charLog) :
    (i < j /\ j < k /\ charLog[i][1] = charLog[k][1]) => charLog[j][1] = charLog[i][1]

\* Nothing is left to run: the process has ended, or every task has
\* finished with no lock callback scheduled.
Settled ==
  \/ crashed
  \/ /\ ticks = 0
     /\ \A r \in Tasks : runs[r].pc = "done" /\ runs[r].io = "idle"

LockedCalls == {c \in 1..Len(calls) : calls[c].op.kind \in Locked}

\* C3: every print, clear or home that takes the lock releases it, also
\* after a failed pin write, so that the calls queued behind it run: when
\* nothing is left to run, the process is alive, the lock is free and every
\* invoked call has run and has released the lock.
C3_LockAlwaysReleased ==
  Settled =>
    /\ ~crashed
    /\ used = NoCall
    /\ \A c \in LockedCalls : calls[c].started >= 1 /\ calls[c].released >= 1

\* C4: a print, clear or home never reports twice, and once it is over it
\* has reported exactly once: one callback/event in lcd-ts.ts, and the
\* promise settled in both variants.
C4_ExactlyOneReport ==
  \A c \in LockedCalls :
    /\ Len(calls[c].reports) <= 1
    /\ (Settled /\ calls[c].started >= 1) =>
         /\ calls[c].promise # "pending"
         /\ variant = "lcd-ts" => Len(calls[c].reports) = 1

\* C5: a report of a print, clear or home is delivered only after the call
\* has released the lock.
C5_ReportAfterRelease ==
  \A c \in LockedCalls : calls[c].reports # <<>> => calls[c].released >= 1

(***************************************************************************)
(* SpecMixed: up to MaxMixed operations, with or without the lock, invoked *)
(* at any time on one driver; every pin write succeeds and the data pins   *)
(* acknowledge in the order written.                                       *)
(***************************************************************************)
MaxMixed == 2

MixedLocked == {PrintOp(Text(1)), SimpleOp("clear"), SimpleOp("home")}

MixedUnlocked ==
  {SimpleOp(k) : k \in ControlToggles \cup ModeToggles \cup Scrolls} \cup {SetCursorOp(1, 0)}

InitMixed == Construct(Variants, {2}, {FALSE}, TRUE)

NextMixed ==
  \/ \E op \in MixedLocked : Len(calls) < MaxMixed /\ InvokeLocked(op)
  \/ \E op \in MixedUnlocked : Len(calls) < MaxMixed /\ InvokeUnlocked(op)
  \/ LockCall
  \/ \E r \in Tasks : PrintChar(r)
  \/ \E r \in Tasks : DelayDone(r)
  \/ \E r \in Tasks : AckEnableHigh(r)
  \/ \E r \in Tasks, i \in 1..4 : InOrder(r, i) /\ AckData(r, i)
  \/ \E r \in Tasks : AckEnableLow(r)
  \/ \E r \in Tasks : Report(r)
  \/ \E r \in Tasks : Release(r)

SpecMixed == InitMixed /\ [][NextMixed]_vars

\* C2: setCursor, a toggle or a scroll command has pin writes in flight
\* only while no print, clear or home holds the lock and no other such
\* command has pin writes in flight.
C2_CommandsSerialized ==
  \A r \in Tasks :
    (KindOf(runs[r]) \in Unlocked /\ runs[r].io # "idle") =>
      /\ used = NoCall
      /\ \A q \in Tasks \ {r} : runs[q].io = "idle"

(***************************************************************************)
(* SpecPrint: one print on a driver constructed with notAutomaticInit,     *)
(* every pin write succeeding, for strings around each multiple of 80 up   *)
(* to MaxPages fills, and the 802 characters of the example.               *)
(***************************************************************************)
MaxPages == 3

ExampleLength == 802

PrintLengths ==
  {n * PageSize + d : n \in 0..MaxPages, d \in {0, 1, PageSize - 1}} \cup {ExampleLength}

InitPrint == Construct(Variants, {1}, {FALSE}, TRUE)

NextPrint ==
  \/ \E n \in PrintLengths : calls = <<>> /\ InvokeLocked(PrintOp(Text(n)))
  \/ LockCall
  \/ \E r \in Tasks : PrintChar(r)
  \/ \E r \in Tasks : AckEnableHigh(r)
  \/ \E r \in Tasks, i \in 1..4 : InOrder(r, i) /\ AckData(r, i)
  \/ \E r \in Tasks : AckEnableLow(r)
  \/ \E r \in Tasks : Report(r)
  \/ \E r \in Tasks : Release(r)

SpecPrint == InitPrint /\ [][NextPrint]_vars

\* The first index print(s) is to transmit, for a string of len characters.
FirstIndex(len) == IF len >= 2 * PageSize THEN ((len \div PageSize) - 1) * PageSize ELSE 0

\* C6: print(s) hands to the pins the characters s[start], s[start + 1],
\* ..., in increasing index order and each once, start being (n - 1) * 80
\* for n = floor(length / 80) > 1 and 0 otherwise; every byte on the pins
\* is the frame of such a character (rs = 1); a finished print has
\* transmitted up to s[length - 1] and has completed successfully.  The
\* empty string transmits nothing, 802 characters give indices 720..801.
C6_PrintTransmitsTail ==
  \A r \in Tasks :
    LET rn    == runs[r]
        s     == calls[rn.call].op.str
        start == FirstIndex(Len(s))
        k     == Len(charLog)
    IN  /\ \A j \in 1..k : charLog[j] = <<rn.call, start + j - 1>>
        /\ start + k <= Len(s)
        /\ Len(rn.log) <= 13 * k
        /\ Len(rn.log) > 13 * (k - 1)
        /\ k > 0 => IsPrefix(SubSeq(rn.log, 13 * (k - 1) + 1, Len(rn.log)),
                             ByteFrame(s[start + k], 1))
        /\ rn.pc = "immediate" => Len(rn.log) = 13 * k
        /\ rn.pc = "done" =>
             /\ start + k = Len(s)
             /\ Len(rn.log) = 13 * k
             /\ calls[rn.call].promise = "resolved"
        /\ (Len(s) = ExampleLength /\ k > 0) => charLog[1][2] = 720 /\ charLog[k][2] <= 801
        /\ Len(s) = 0 => k = 0 /\ rn.log = <<>>

\* C6 witness: the print of 802 characters has finished, having
\* transmitted 82 characters from index 720 on.
C6_Witness ==
  \E r \in Tasks :
    /\ Len(calls[runs[r].call].op.str) = ExampleLength
    /\ runs[r].pc = "done"
    /\ Len(charLog) = 82
    /\ charLog[1] = <<runs[r].call, 720>>
    /\ charLog[82] = <<runs[r].call, 801>>

(***************************************************************************)
(* SpecCursor: one setCursor(col, row) on a driver of 1 to 4 rows          *)
(* (config.rows 0 gives 1), col up to MaxCol and row up to MaxRow.         *)
(***************************************************************************)
MaxCol == 2
MaxRow == 5

InitCursor == Construct(Variants, 0..4, {FALSE}, TRUE)

NextCursor ==
  \/ \E col \in 0..MaxCol, row \in 0..MaxRow :
       calls = <<>> /\ InvokeUnlocked(SetCursorOp(col, row))
  \/ \E r \in Tasks : AckEnableHigh(r)
  \/ \E r \in Tasks, i \in 1..4 : InOrder(r, i) /\ AckData(r, i)
  \/ \E r \in Tasks : AckEnableLow(r)

SpecCursor == InitCursor /\ [][NextCursor]_vars

\* C8: setCursor(col, row) sends 0x80 | (col + ROW_OFFSETS[r]) with r = row
\* for a row below the configured row count and r = rows - 1 for every
\* row >= rows.
C8_SetCursorClamps ==
  \A r \in Tasks :
    LET rn  == runs[r]
        op  == calls[rn.call].op
        idx == IF op.row >= rows THEN rows - 1 ELSE op.row
    IN  op.kind = "setCursor" =>
          IsPrefix(rn.log, ByteFrame(BitOr(128, op.col + ROW_OFFSETS[idx + 1]), 0))

(***************************************************************************)
(* SpecToggle: up to MaxToggles display-control toggles, each invoked once *)
(* the one before it has completed.                                        *)
(***************************************************************************)
MaxToggles == 3

InitToggle == Construct(Variants, {1}, {FALSE}, TRUE)

NextToggle ==
  \/ \E k \in ControlToggles :
       Idle /\ Len(calls) < MaxToggles /\ InvokeUnlocked(SimpleOp(k))
  \/ \E r \in Tasks : AckEnableHigh(r)
  \/ \E r \in Tasks, i \in 1..4 : InOrder(r, i) /\ AckData(r, i)
  \/ \E r \in Tasks : AckEnableLow(r)

SpecToggle == InitToggle /\ [][NextToggle]_vars

\* Bit arithmetic on a register of bits 1, 2, 4, 8.
WithBit(x, m) == IF (x \div m) % 2 = 1 THEN x ELSE x + m
WithoutBit(x, m) == IF (x \div m) % 2 = 1 THEN x - m ELSE x

\* The display-control register after the first n calls, from 0x0c.
RECURSIVE ControlAfter(_)
ControlAfter(n) ==
  IF n = 0 THEN 12
  ELSE LET x == ControlAfter(n - 1)
           k == calls[n].op.kind
       IN  CASE k = "display"   -> WithBit(x, 4)
             [] k = "noDisplay" -> WithoutBit(x, 4)
             [] k = "cursor"    -> WithBit(x, 2)
             [] k = "noCursor"  -> WithoutBit(x, 2)
             [] k = "blink"     -> WithBit(x, 1)
             [] k = "noBlink"   -> WithoutBit(x, 1)
             [] OTHER           -> x

\* C9: after display-control toggles invoked one after the other, the
\* register this.displayControl is the initial 0x0c with the toggles' bits
\* set and cleared in call order, and the byte of the last toggle on the
\* pins is that register; display(), noDisplay(), cursor() leave 0x0a.
C9_ControlRegisterSent ==
  /\ displayControl = ControlAfter(Len(calls))
  /\ \A r \in Tasks :
       /\ runs[r].val = ControlAfter(runs[r].call)
       /\ IsPrefix(runs[r].log, ByteFrame(ControlAfter(runs[r].call), 0))
       /\ runs[r].pc = "done" => runs[r].log = ByteFrame(ControlAfter(runs[r].call), 0)
  /\ (Len(calls) = 3 /\ calls[1].op.kind = "display" /\ calls[2].op.kind = "noDisplay"
        /\ calls[3].op.kind = "cursor") => displayControl = 10

\* C9 witness: display(), noDisplay(), cursor() have completed and 0x0a
\* was the last byte sent.
C9_Witness ==
  /\ Len(calls) = 3
  /\ calls[1].op.kind = "display"
  /\ calls[2].op.kind = "noDisplay"
  /\ calls[3].op.kind = "cursor"
  /\ Idle
  /\ Len(runs) = 3
  /\ runs[3].log = ByteFrame(10, 0)
  /\ displayControl = 10

(***************************************************************************)
(* SpecInit: one run of init() with nothing else in flight: the one the    *)
(* constructor starts, or one invoked on a driver constructed with         *)
(* notAutomaticInit after up to MaxBefore toggles have completed.          *)
(***************************************************************************)
MaxBefore == 1

InitInit ==
  \/ Construct(Variants, 0..4, BOOLEAN, FALSE)
  \/ Construct(Variants, 0..4, BOOLEAN, TRUE)

NoInitYet == \A c \in 1..Len(calls) : calls[c].op.kind # "init"

NextInit ==
  \/ \E k \in ControlToggles \cup ModeToggles :
       Idle /\ NoInitYet /\ Len(calls) < MaxBefore /\ InvokeUnlocked(SimpleOp(k))
  \/ Idle /\ NoInitYet /\ InvokeInit
  \/ \E r \in Tasks : DelayDone(r)
  \/ \E r \in Tasks : AckEnableHigh(r)
  \/ \E r \in Tasks, i \in 1..4 : InOrder(r, i) /\ AckData(r, i)
  \/ \E r \in Tasks : AckEnableLow(r)

SpecInit == InitInit /\ [][NextInit]_vars

\* The function-set byte for a row count and font.
FunctionSetByte == IF rows > 1 THEN 40 ELSE IF largeFont THEN 36 ELSE 32

\* The pin writes of a whole init().
InitTrace ==
  Frame(3) \o Frame(3) \o Frame(3) \o Frame(2)
    \o ByteFrame(FunctionSetByte, 0) \o ByteFrame(16, 0)
    \o ByteFrame(displayControl, 0) \o ByteFrame(displayMode, 0) \o ByteFrame(1, 0)

\* C10: the pin writes of init() are always a prefix of: nibbles 3, 3, 3,
\* 2, then as commands the function-set byte (0x28 for rows > 1, 0x24 for
\* one row with the large font, else 0x20), 0x10, the display-control
\* register, the display-mode register and 0x01; a frame starts only with
\* enable low, that is once the frame before it has completed; a finished
\* init() has issued them all.
C10_InitSequence ==
  \A r \in Tasks :
    KindOf(runs[r]) = "init" =>
      /\ IsPrefix(runs[r].log, InitTrace)
      /\ runs[r].io = "eHigh" => pins.e = 0
      /\ runs[r].pc = "delay" => runs[r].io = "idle" /\ Len(runs[r].log) \in {0, 6, 12, 18, 89}
      /\ runs[r].pc = "done" => runs[r].log = InitTrace

\* C10 witness: init() has finished on a one-row large-font driver whose
\* display-control register a toggle had changed.
C10_Witness ==
  \E r \in Tasks :
    /\ KindOf(runs[r]) = "init"
    /\ runs[r].pc = "done"
    /\ rows = 1
    /\ largeFont
    /\ displayControl # InitialControl
    /\ Len(runs[r].log) = 89

(***************************************************************************)
(* SpecBoot: a driver constructed without notAutomaticInit, so that the    *)
(* constructor starts init(), and up to MaxBoot operations invoked at any  *)
(* time from then on; every pin write succeeds.                            *)
(***************************************************************************)
MaxBoot == 1

BootMenuLocked == {PrintOp(Text(1)), SimpleOp("clear")}

BootMenuUnlocked == {SimpleOp("noDisplay"), SimpleOp("scrollDisplayLeft"), SetCursorOp(1, 1)}

InitBoot == Construct(Variants, {2}, {FALSE}, FALSE)

NextBoot ==
  \/ \E op \in BootMenuLocked : Len(calls) < 1 + MaxBoot /\ InvokeLocked(op)
  \/ \E op \in BootMenuUnlocked : Len(calls) < 1 + MaxBoot /\ InvokeUnlocked(op)
  \/ LockCall
  \/ \E r \in Tasks : PrintChar(r)
  \/ \E r \in Tasks : DelayDone(r)
  \/ \E r \in Tasks : AckEnableHigh(r)
  \/ \E r \in Tasks, i \in 1..4 : InOrder(r, i) /\ AckData(r, i)
  \/ \E r \in Tasks : AckEnableLow(r)
  \/ \E r \in Tasks : Report(r)
  \/ \E r \in Tasks : Release(r)

SpecBoot == InitBoot /\ [][NextBoot]_vars

\* C11: on a driver that initializes itself, no operation other than
\* init() has issued a pin write before init() has finished.
C11_NothingBeforeInitEnds ==
  \A r \in Tasks :
    (KindOf(runs[r]) # "init" /\ runs[r].log # <<>>) =>
      \E q \in Tasks : KindOf(runs[q]) = "init" /\ runs[q].pc = "done"

(***************************************************************************)
(* SpecReady: up to MaxInits runs of init() on a lcd-ts.ts driver (the     *)
(* variant that emits events), the first started by the constructor or by  *)
(* the caller, each started once the one before it has ended; up to        *)
(* MaxFaults pin writes fail (enable high, the first data write of a       *)
(* Promise.all, or enable low).                                            *)
(***************************************************************************)
MaxInits == 2

InitReady ==
  \/ Construct({"lcd-ts"}, {1}, {FALSE}, FALSE)
  \/ Construct({"lcd-ts"}, {1}, {FALSE}, TRUE)

NextReady ==
  \/ Idle /\ orphans = {} /\ Len(calls) < MaxInits /\ InvokeInit
  \/ \E r \in Tasks : DelayDone(r)
  \/ \E r \in Tasks : AckEnableHigh(r)
  \/ \E r \in Tasks, i \in 1..4 : InOrder(r, i) /\ AckData(r, i)
  \/ \E r \in Tasks : AckEnableLow(r)
  \/ \E r \in Tasks, i \in 1..4 : faults < MaxFaults /\ InOrder(r, i) /\ FailWrite(r, i)
  \/ \E w \in orphans : OrphanAck(w)

SpecReady == InitReady /\ [][NextReady]_vars

\* The init() runs that have gone through all their transmissions (89 pin
\* writes) and their last wait.
CompleteInits ==
  {r \in Tasks : /\ runs[r].pc = "done"
                 /\ runs[r].step = Len(InitProgram)
                 /\ Len(runs[r].log) = 89}

\* C12: 'ready' has been emitted once for each init() run that has issued
\* all its pin writes and sat out its last wait, and for no other: never
\* for a run still under way and never for a run in which a pin write
\* failed.
C12_ReadyOncePerInit ==
  /\ ready = Cardinality(CompleteInits)
  /\ \A r \in Tasks :
       /\ r \in CompleteInits <=> calls[runs[r].call].promise = "resolved"
       /\ calls[runs[r].call].promise = "rejected" =>
            runs[r].pc = "done" /\ runs[r].step < Len(InitProgram) - 1

\* C12 witness: of two init() runs one has failed at a pin write and the
\* other has completed, and 'ready' was emitted once.
C12_Witness ==
  /\ Len(runs) = 2
  /\ faults = 1
  /\ ready = 1
  /\ \E r \in Tasks : calls[runs[r].call].promise = "rejected"
  /\ Cardinality(CompleteInits) = 1

\* C13: while a data-pin write of a nibble is unacknowledged the enable
\* pin is high, whatever operations the callers have invoked.
C13_EnableHighAroundData ==
  \A r \in Tasks : runs[r].io = "data" => pins.e = 1

\* C14: clear() and home() start their wait only once the 13 pin writes
\* of the command byte are done, and while one of those writes is pending
\* the call holds the lock and has reported nothing.
C14_ClearHoldsLockThroughWait ==
  \A r \in Tasks :
    KindOf(runs[r]) \in {"clear", "home"} =>
      /\ runs[r].pc = "delay" => runs[r].io = "idle" /\ Len(runs[r].log) = 13
      /\ runs[r].io # "idle" =>
           used = runs[r].call /\ calls[runs[r].call].reports = <<>>

(***************************************************************************)
(* SpecRetry: up to MaxRetryCalls calls of print with a two-character      *)
(* string, invoked at any time, with up to MaxRetryFaults writes of the    *)
(* enable pin failing.                                                     *)
(***************************************************************************)
MaxRetryCalls == 3
MaxRetryFaults == 2

InitRetry == Construct(Variants, {1}, {FALSE}, TRUE)

NextRetry ==
  \/ Len(calls) < MaxRetryCalls /\ InvokeLocked(PrintOp(Text(2)))
  \/ LockCall
  \/ \E r \in Tasks : PrintChar(r)
  \/ \E r \in Tasks : AckEnableHigh(r)
  \/ \E r \in Tasks, i \in 1..4 : InOrder(r, i) /\ AckData(r, i)
  \/ \E r \in Tasks : AckEnableLow(r)
  \/ \E r \in Tasks : faults < MaxRetryFaults /\ runs[r].io = "eHigh" /\ FailWrite(r, 1)
  \/ \E r \in Tasks : Report(r)
  \/ \E r \in Tasks : Release(r)

SpecRetry == InitRetry /\ [][NextRetry]_vars

\* C15: once a pin write of a print call has failed, no character of that
\* call is handed to the pins any more (neither the failed one again nor a
\* later one), and the call has ended with a failure.
C15_FailedPrintStops ==
  [][\A r \in Tasks :
       (KindOf(runs[r]) = "print" /\ runs[r].out = "err") =>
         /\ charLog' # charLog => charLog'[Len(charLog')][1] # runs[r].call
         /\ runs[r].pc = "done" => calls[runs[r].call].promise = "rejected"]_vars

\* C16: print, clear and home run in invocation order: once a later call
\* has issued a pin write, every earlier call has run and has no pin write
\* pending or still to come.
C16_LockedCallsInOrder ==
  \A a, b \in LockedCalls :
    (a < b /\ \E q \in Tasks : runs[q].call = b /\ runs[q].log # <<>>) =>
      /\ calls[a].started >= 1
      /\ \A r \in Tasks :
           runs[r].call = a =>
             /\ runs[r].io = "idle"
             /\ ~(runs[r].pc = "immediate" /\ runs[r].idx < Len(calls[a].op.str))

(***************************************************************************)
(* SpecRegs: up to MaxRegOps operations of any kind (the ten toggles, the  *)
(* scroll commands, setCursor, print, clear, home, init), each invoked     *)
(* once the one before it has completed; every pin write succeeds.         *)
(***************************************************************************)
MaxRegOps == 2

InitRegs == Construct(Variants, {2}, {FALSE}, TRUE)

NextRegs ==
  \/ \E k \in ControlToggles \cup ModeToggles \cup Scrolls :
       Idle /\ Len(calls) < MaxRegOps /\ InvokeUnlocked(SimpleOp(k))
  \/ Idle /\ Len(calls) < MaxRegOps /\ InvokeUnlocked(SetCursorOp(1, 1))
  \/ \E op \in MixedLocked : Idle /\ Len(calls) < MaxRegOps /\ InvokeLocked(op)
  \/ Idle /\ Len(calls) < MaxRegOps /\ InvokeInit
  \/ LockCall
  \/ \E r \in Tasks : PrintChar(r)
  \/ \E r \in Tasks : DelayDone(r)
  \/ \E r \in Tasks : AckEnableHigh(r)
  \/ \E r \in Tasks, i \in 1..4 : InOrder(r, i) /\ AckData(r, i)
  \/ \E r \in Tasks : AckEnableLow(r)
  \/ \E r \in Tasks : Report(r)
  \/ \E r \in Tasks : Release(r)

SpecRegs == InitRegs /\ [][NextRegs]_vars

\* The registers <<control, mode>> an operation of kind k is to leave.
RegistersAfter(k, dc, dm) ==
  CASE k = "display"      -> <<WithBit(dc, 4), dm>>
    [] k = "noDisplay"    -> <<WithoutBit(dc, 4), dm>>
    [] k = "cursor"       -> <<WithBit(dc, 2), dm>>
    [] k = "noCursor"     -> <<WithoutBit(dc, 2), dm>>
    [] k = "blink"        -> <<WithBit(dc, 1), dm>>
    [] k = "noBlink"      -> <<WithoutBit(dc, 1), dm>>
    [] k = "leftToRight"  -> <<dc, WithBit(dm, 2)>>
    [] k = "rightToLeft"  -> <<dc, WithoutBit(dm, 2)>>
    [] k = "autoscroll"   -> <<dc, WithBit(dm, 1)>>
    [] k = "noAutoscroll" -> <<dc, WithoutBit(dm, 1)>>
    [] OTHER              -> <<dc, dm>>

\* Every finished toggle has put on the pins exactly the byte of the
\* register it left, as a command.
TogglesSentWhole ==
  \A r \in Tasks :
    (KindOf(runs[r]) \in ControlToggles \cup ModeToggles /\ runs[r].pc = "done") =>
      runs[r].log = ByteFrame(runs[r].val, 0)

\* C17: a step changes the registers only if it invokes a toggle; the
\* toggle sets or clears its own bit of its own register, leaves the rest
\* of both registers as they were and sends the whole updated register as
\* one command byte.  Every other step (print, clear, home, setCursor, the
\* scroll commands, init, and every pin acknowledgement) leaves both
\* registers unchanged.
C17_OnlyTogglesChangeRegisters ==
  [][/\ IF Len(calls') > Len(calls)
        THEN LET k == calls'[Len(calls')].op.kind
             IN  /\ <<displayControl', displayMode'>> =
                      RegistersAfter(k, displayControl, displayMode)
                 /\ k \in ControlToggles =>
                      runs'[Len(runs')].val = displayControl' /\ runs'[Len(runs')].mode = 0
                 /\ k \in ModeToggles =>
                      runs'[Len(runs')].val = displayMode' /\ runs'[Len(runs')].mode = 0
        ELSE displayControl' = displayControl /\ displayMode' = displayMode
     /\ TogglesSentWhole'
  ]_vars

\* C17 witness: rightToLeft() cleared the direction bit and a print that
\* followed it has completed with both registers as the toggle left them.
C17_Witness ==
  /\ Len(calls) = 2
  /\ calls[1].op.kind = "rightToLeft"
  /\ calls[2].op.kind = "print"
  /\ Idle
  /\ calls[2].promise = "resolved"
  /\ displayMode = 4
  /\ displayControl = 12

\* C18: a print, clear or home calls release() at most once for each time
\* its body was given the lock, and at most one task has a pin write in
\* flight at any time, also after a failed print.
C18_ReleaseOncePerAcquisition ==
  /\ \A c \in LockedCalls : calls[c].released <= calls[c].started
  /\ Cardinality({r \in Tasks : runs[r].io # "idle"}) <= 1

\* C19: while an enable pulse of a byte is under way (enable written high
\* and not yet acknowledged low), the register-select pin is at the byte's
\* mode: high for a character of print, low for a command.
C19_RegisterSelectMatches ==
  \A r \in Tasks : runs[r].io \in {"data", "eLow"} => pins.rs = runs[r].mode

(***************************************************************************)
(* SpecRanges: up to MaxRangeOps toggles of either register, in any order, *)
(* each invoked once the one before it has completed.                      *)
(***************************************************************************)
MaxRangeOps == 3

InitRanges == Construct(Variants, {2}, {FALSE}, TRUE)

NextRanges ==
  \/ \E k \in ControlToggles \cup ModeToggles :
       Idle /\ Len(calls) < MaxRangeOps /\ InvokeUnlocked(SimpleOp(k))
  \/ \E r \in Tasks : AckEnableHigh(r)
  \/ \E r \in Tasks, i \in 1..4 : InOrder(r, i) /\ AckData(r, i)
  \/ \E r \in Tasks : AckEnableLow(r)

SpecRanges == InitRanges /\ [][NextRanges]_vars

\* C20: the display-control register is always in 0x08..0x0f and the
\* display-mode register in 0x04..0x07, and so is every byte a toggle
\* sends.
C20_RegistersInRange ==
  /\ displayControl \in 8..15
  /\ displayMode \in 4..7
  /\ \A r \in Tasks :
       /\ KindOf(runs[r]) \in ControlToggles => runs[r].val \in 8..15
       /\ KindOf(runs[r]) \in ModeToggles => runs[r].val \in 4..7

\* C20 witness: noDisplay(), cursor(), blink() have completed and left
\* 0x0b, the display bit cleared and bit 3 still set.
C20_Witness ==
  /\ Len(calls) = 3
  /\ calls[1].op.kind = "noDisplay"
  /\ calls[2].op.kind = "cursor"
  /\ calls[3].op.kind = "blink"
  /\ Idle
  /\ displayControl = 11
  /\ runs[3].log = ByteFrame(11, 0)

====
